---- MODULE Spec2Model ----
(***************************************************************************)
(* DVSA MOT history integration: the OAuth2 token cache and the vehicle    *)
(* lookup of DvsaMotClient (custom_components/dvsa_mot/api.py) and the two *)
(* polling coordinators of the repository:                                 *)
(*   "gather"     DvsaMotCoordinator            (coordinator.py)           *)
(*   "sequential" DvsaMotDataUpdateCoordinator  (custom_components/        *)
(*                                               dvsa_mot/coordinator.py)  *)
(*                                                                         *)
(* Spec          the poll cycles of a coordinator (impl picks which one).  *)
(* SpecToken     concurrent callers of DvsaMotClient._get_token.           *)
(* SpecLock      the same callers, under the fairness of the event loop.    *)
(* SpecClient    vehicle_by_registration calls, one at a time.             *)
(* SpecNormalize the normalization of a registration string.               *)
(* SpecSensor    the entities of a vehicle read on one Snapshot entry.      *)
(* SpecSetup     async_setup_entry and the cycles that follow it.           *)
(***************************************************************************)
EXTENDS Integers, Sequences, FiniteSets, TLC

VARIABLES
    impl,           \* which coordinator class runs: "gather" | "sequential"
    config,         \* entry.options/data[CONF_REGISTRATIONS]: list of raw strings
    registrations,  \* coordinator.registrations
    data,           \* coordinator.data, the Snapshot readers see
    phase,          \* _async_update_data: "idle" | "fetching" | "settled" | "aborted" | "crashed"
    cycles,         \* number of cycles started so far
    tasks,          \* the lookups of the cycle in progress, one per registration
    results,        \* the local dict `results` of the cycle in progress
    orphans,        \* tasks of abandoned gather() calls that are still alive
    prevData,       \* history: coordinator.data when the current cycle started
    token,          \* DvsaMotClient._token
    lockHolder,     \* owner of DvsaMotClient._token_lock (0: free)
    lockQueue,      \* callers waiting on _token_lock, in arrival order
    caller,         \* per caller of _get_token: its position and what it holds
    now,            \* the UTC clock, in seconds
    posts,          \* number of POSTs sent to the token endpoint so far
    herd,           \* history: every call so far was made with no valid cached
                    \* token and before any call had finished
    req,            \* one vehicle_by_registration call: its position, its
                    \* argument, and the HTTP requests it has sent
    probe           \* the arguments and the result of a function of the
                    \* integration that is being evaluated on its own

coordVars == <<impl, config, registrations, data, phase, cycles, tasks, results,
               orphans, prevData>>
tokenVars == <<token, lockHolder, lockQueue, caller, now, posts, herd>>
callVars == <<req, probe>>
vars == <<impl, config, registrations, data, phase, cycles, tasks, results,
          orphans, prevData, token, lockHolder, lockQueue, caller, now, posts, herd,
          req, probe>>

(***************************************************************************)
(* Bounds of the model.                                                    *)
(***************************************************************************)
MaxCycles == 2
NumCallers == 3
MaxTicks == 2
MaxLookups == 2
MaxLen == 3
MaxDay == 2
MaxTests == 2
MaxWarn == 1

(***************************************************************************)
(* Strings are sequences of one-character strings, so that str.strip(),    *)
(* str.replace(" ", "") and str.upper() are computed, not assumed.         *)
(***************************************************************************)
Whitespace == {" ", "\t"}

UpperChar(c) ==
    CASE c = "a" -> "A"
      [] c = "b" -> "B"
      [] c = "x" -> "X"
      [] OTHER -> c

RECURSIVE LStrip(_)
LStrip(s) ==
    IF s = <<>> THEN s
    ELSE IF Head(s) \in Whitespace THEN LStrip(Tail(s)) ELSE s

RECURSIVE RStrip(_)
RStrip(s) ==
    IF s = <<>> THEN s
    ELSE IF s[Len(s)] \in Whitespace THEN RStrip(SubSeq(s, 1, Len(s) - 1)) ELSE s

\* str.strip()
Strip(s) == RStrip(LStrip(s))

\* str.replace(" ", "")
RemoveSpaces(s) == SelectSeq(s, LAMBDA c : c # " ")

\* str.upper()
Upper(s) == [i \in 1..Len(s) |-> UpperChar(s[i])]

\* Mutant of NormalizeReg: the spaces inside the string are kept.
NormalizeRegKeepsSpaces(s) == Upper(Strip(s))

\* registration.strip().replace(" ", "").upper()
NormalizeReg(s) == Upper(RemoveSpaces(Strip(s)))

\* No call is being followed, no function is being evaluated.
NoRequest == [pc |-> "none"]
NoProbe == [fn |-> "none"]

(***************************************************************************)
(* Python dicts as functions; d[k] = v is Put(d, k, v).                    *)
(***************************************************************************)
EmptyDict == <<>>

Put(d, k, v) == [x \in (DOMAIN d) \cup {k} |-> IF x = k THEN v ELSE d[x]]

\* Optional[dict]: coordinator.data is None until a cycle has settled.
NoneData == [isNone |-> TRUE]
SomeData(d) == [isNone |-> FALSE, map |-> d]

(***************************************************************************)
(* Results of calls: a returned value or a raised exception.               *)
(***************************************************************************)
Return(v) == [t |-> "return", v |-> v]
Raise(cls, msg) == [t |-> "raise", cls |-> cls, msg |-> msg]

\* class MotApiError(Exception); class MotAuthError(MotApiError);
\* class MotNotFoundError(MotApiError).  Other classes derive from Exception.
Bases(cls) ==
    CASE cls = "MotAuthError" -> {"MotAuthError", "MotApiError", "Exception"}
      [] cls = "MotNotFoundError" -> {"MotNotFoundError", "MotApiError", "Exception"}
      [] cls = "MotApiError" -> {"MotApiError", "Exception"}
      [] OTHER -> {cls, "Exception"}

IsInstance(r, cls) == r.t = "raise" /\ cls \in Bases(r.cls)

(***************************************************************************)
(* DvsaMotClient: the token cache.                                         *)
(***************************************************************************)
TOKEN_MARGIN == 60
DEFAULT_EXPIRES_IN == 3600

\* self._token: Optional[Token]
NoToken == [set |-> FALSE]
Token(access, expiresAt) == [set |-> TRUE, access_token |-> access, expires_at |-> expiresAt]

\* Mutant of CacheHit: the comparison is the wrong way round.
CacheHitReversed(tk, t) == tk.set /\ tk.expires_at - t < TOKEN_MARGIN

\* if self._token and self._token.expires_at - now > timedelta(seconds=60)
CacheHit(tk, t) == tk.set /\ tk.expires_at - t > TOKEN_MARGIN

\* What the token endpoint may answer to one POST.  access is the string the
\* endpoint issues ("" when the field is missing or empty); expires_in is the
\* lifetime it announces, when hasExpiresIn.
HttpTokenReply(status, access, hasExpiresIn, expiresIn) ==
    [kind |-> "http", status |-> status, access_token |-> access,
     hasExpiresIn |-> hasExpiresIn, expires_in |-> expiresIn]

ExpiresInValues == {60, 61}

TokenReplies(access) ==
    {HttpTokenReply(200, access, TRUE, e) : e \in ExpiresInValues}
        \cup {HttpTokenReply(200, access, FALSE, 0),
              HttpTokenReply(200, "", TRUE, 61),
              HttpTokenReply(401, "", FALSE, 0),
              HttpTokenReply(403, "", FALSE, 0),
              HttpTokenReply(500, "", FALSE, 0),
              [kind |-> "client_error"],
              [kind |-> "timeout"]}

\* Everything the token endpoint may answer to the POST of one lookup: also a
\* success response that is not JSON.
ClientTokenReplies(access) ==
    TokenReplies(access)
        \cup {[kind |-> "wrong_content_type"], [kind |-> "malformed_json"]}

\* The try block of _get_token: the POST and the reading of its response.
\* aiohttp.ClientError is caught; the total-timeout error (asyncio.TimeoutError)
\* is no ClientError and propagates unchanged.  A success response that is not
\* JSON makes resp.json() raise: aiohttp.ContentTypeError (a ClientError) when
\* the content type is not JSON, json.JSONDecodeError (a ValueError, no
\* ClientError) when the body of a JSON response cannot be decoded.
PostToken(reply) ==
    CASE reply.kind = "client_error" -> Raise("MotApiError", "Token request error")
      [] reply.kind = "timeout" -> Raise("TimeoutError", "")
      [] reply.kind = "wrong_content_type" -> Raise("MotApiError", "Token request error")
      [] reply.kind = "malformed_json" -> Raise("JSONDecodeError", "")
      [] OTHER ->
            IF reply.status \in {401, 403}
            THEN Raise("MotAuthError", "Token request unauthorized")
            ELSE IF reply.status >= 400
            THEN Raise("MotApiError", "Token request failed")
            ELSE Return(reply)

\* payload.get("expires_in", 3600)
ExpiresIn(payload) ==
    IF payload.hasExpiresIn THEN payload.expires_in ELSE DEFAULT_EXPIRES_IN

\* Mutant of RefreshToken: a failed refresh throws the cached token away.
RefreshTokenClearsOnFailure(tk, nowRead, reply) ==
    LET po == PostToken(reply) IN
    IF po.t = "raise" THEN [res |-> po, token |-> NoToken]
    ELSE IF po.v.access_token = ""
    THEN [res |-> Raise("MotApiError", "Token response missing access_token"),
          token |-> NoToken]
    ELSE [res |-> Return(po.v.access_token),
          token |-> Token(po.v.access_token, nowRead + ExpiresIn(po.v))]

\* _get_token after the cache miss: the caller's result and the cache afterwards.
\* nowRead is the local `now`, read when the lock was taken, before the POST.
RefreshToken(tk, nowRead, reply) ==
    LET po == PostToken(reply) IN
    IF po.t = "raise" THEN [res |-> po, token |-> tk]
    ELSE IF po.v.access_token = ""
    THEN [res |-> Raise("MotApiError", "Token response missing access_token"),
          token |-> tk]
    ELSE [res |-> Return(po.v.access_token),
          token |-> Token(po.v.access_token, nowRead + ExpiresIn(po.v))]

(***************************************************************************)
(* DvsaMotClient: the vehicle lookup.                                      *)
(***************************************************************************)
HttpVehicleReply(status, body) == [kind |-> "http", status |-> status, body |-> body]

\* A decoded vehicle document (a JSON object without an "_error" key).
Payloads == {[doc |-> "payload1"]}

NoBody == [doc |-> ""]

VehicleReplies ==
    {HttpVehicleReply(200, p) : p \in Payloads}
        \cup {HttpVehicleReply(404, NoBody), HttpVehicleReply(401, NoBody),
              HttpVehicleReply(403, NoBody), HttpVehicleReply(500, NoBody),
              [kind |-> "timeout"]}

\* Everything the vehicle endpoint may answer to one GET of the client; the
\* poll cycle above is explored with VehicleReplies, one reply of each kind of
\* outcome the coordinators tell apart.
ClientVehicleReplies ==
    VehicleReplies
        \cup {HttpVehicleReply(400, NoBody),
              [kind |-> "client_error"],
              [kind |-> "wrong_content_type"],
              [kind |-> "malformed_json"]}

\* Mutant of Request: only 401 counts as an authentication failure.
RequestAuth401Only(tokenResult, reply) ==
    IF tokenResult.t = "raise" THEN tokenResult
    ELSE CASE reply.kind = "client_error" -> Raise("MotApiError", "Request error")
           [] reply.kind = "timeout" -> Raise("TimeoutError", "")
           [] reply.kind = "wrong_content_type" -> Raise("MotApiError", "Request error")
           [] reply.kind = "malformed_json" -> Raise("JSONDecodeError", "")
           [] OTHER ->
                IF reply.status = 404 THEN Raise("MotNotFoundError", "Vehicle not found")
                ELSE IF reply.status = 401 THEN Raise("MotAuthError", "Unauthorized")
                ELSE IF reply.status >= 400 THEN Raise("MotApiError", "API error")
                ELSE Return(reply.body)

\* _request: the token first, then one GET classified by its status.
\* aiohttp.ClientError is caught; asyncio.TimeoutError is not, and neither is
\* the json.JSONDecodeError of resp.json().
Request(tokenResult, reply) ==
    IF tokenResult.t = "raise" THEN tokenResult
    ELSE CASE reply.kind = "client_error" -> Raise("MotApiError", "Request error")
           [] reply.kind = "timeout" -> Raise("TimeoutError", "")
           [] reply.kind = "wrong_content_type" -> Raise("MotApiError", "Request error")
           [] reply.kind = "malformed_json" -> Raise("JSONDecodeError", "")
           [] OTHER ->
                IF reply.status = 404 THEN Raise("MotNotFoundError", "Vehicle not found")
                ELSE IF reply.status \in {401, 403} THEN Raise("MotAuthError", "Unauthorized")
                ELSE IF reply.status >= 400 THEN Raise("MotApiError", "API error")
                ELSE Return(reply.body)

\* The registration put in the request path.
RequestPath(registration) == NormalizeReg(registration)

\* vehicle_by_registration(registration)
VehicleByRegistration(registration, tokenResult, reply) == Request(tokenResult, reply)

\* The answers of the token endpoint during a poll cycle: a token, a refusal,
\* a server error, no answer in time.  (A connection error and a response
\* without access_token give a MotApiError like status 500 does, with another
\* message.)
CycleTokenReplies ==
    {HttpTokenReply(200, "tokenA", FALSE, 0),
     HttpTokenReply(401, "", FALSE, 0),
     HttpTokenReply(500, "", FALSE, 0),
     [kind |-> "timeout"]}

\* What _get_token hands to _request during a poll cycle: the cached token, or
\* the result of a refresh, whatever the token endpoint answered.
TokenResults ==
    {Return("tokenA")} \cup {RefreshToken(NoToken, 0, r).res : r \in CycleTokenReplies}

(***************************************************************************)
(* The tracked registrations.                                              *)
(***************************************************************************)
RegA1 == <<"a", "b", "1">>
RegA2 == <<" ", "A", "B", " ", "1", " ">>
RegX == <<"x", "9">>
Blank == <<" ">>

\* Values of the configured registration list.
RawConfigs == {<<>>, <<RegA1>>, <<RegA2, Blank, RegA1, RegX>>}

\* DvsaMotCoordinator.__init__:
\*   [r.strip().replace(" ", "").upper() for r in registrations if r.strip()]
InitRegistrations(regs) ==
    LET kept == SelectSeq(regs, LAMBDA r : Strip(r) # <<>>)
    IN  [i \in 1..Len(kept) |-> Upper(RemoveSpaces(Strip(kept[i])))]

RECURSIVE DeDupe(_, _)
DeDupe(cleaned, out) ==
    IF cleaned = <<>> THEN out
    ELSE IF \E j \in 1..Len(out) : out[j] = Head(cleaned)
         THEN DeDupe(Tail(cleaned), out)
         ELSE DeDupe(Tail(cleaned), Append(out, Head(cleaned)))

\* DvsaMotDataUpdateCoordinator._get_registrations
GetRegistrations(regs) ==
    LET norm == [i \in 1..Len(regs) |-> Upper(RemoveSpaces(Strip(regs[i])))]
        cleaned == SelectSeq(norm, LAMBDA rr : rr # <<>>)
    IN  DeDupe(cleaned, <<>>)

\* text.replace(";", ",").split(","): the parts between the separators.
RECURSIVE Split(_, _)
Split(text, part) ==
    IF text = <<>> THEN <<part>>
    ELSE IF Head(text) \in {",", ";"} THEN <<part>> \o Split(Tail(text), <<>>)
    ELSE Split(Tail(text), Append(part, Head(text)))

\* _parse_regs(text) of the config flow
ParseRegs(text) ==
    LET parts == Split(text, <<>>)
        norm == [i \in 1..Len(parts) |-> Upper(RemoveSpaces(Strip(parts[i])))]
    IN  SelectSeq(norm, LAMBDA r : r # <<>>)

(***************************************************************************)
(* Snapshot entries.                                                       *)
(***************************************************************************)
NotFoundMarker == [_error |-> "not_found"]
ApiErrorMarker == [_error |-> "api_error"]
ApiErrorMessage(m) == [_error |-> "api_error", message |-> m]
ApiErrorDetail(m) == [_error |-> "api_error", detail |-> m]

IsApiErrorMarker(e) == "_error" \in DOMAIN e /\ e._error = "api_error"
IsNotFoundMarker(e) == "_error" \in DOMAIN e /\ e._error = "not_found"

\* Mutant of GatherFetch: MotAuthError is handled like any other MotApiError.
GatherFetchAuthAsApiError(res) ==
    IF res.t = "return" THEN Return(res.v)
    ELSE IF IsInstance(res, "MotNotFoundError") THEN Return(NotFoundMarker)
    ELSE IF IsInstance(res, "MotApiError") THEN Return(ApiErrorMessage(res.msg))
    ELSE res

\* fetch(reg) of DvsaMotCoordinator._async_update_data: Return(e) stores e in
\* results[reg]; Raise leaves fetch.
GatherFetch(res) ==
    IF res.t = "return" THEN Return(res.v)
    ELSE IF IsInstance(res, "MotNotFoundError") THEN Return(NotFoundMarker)
    ELSE IF IsInstance(res, "MotAuthError") THEN Raise("UpdateFailed", "Auth error")
    ELSE IF IsInstance(res, "MotApiError") THEN Return(ApiErrorMessage(res.msg))
    ELSE res

\* The body of the for loop of DvsaMotDataUpdateCoordinator._async_update_data.
SeqFetch(res) ==
    IF res.t = "return" THEN Return(res.v)
    ELSE IF IsInstance(res, "MotAuthError") THEN Raise("UpdateFailed", "Authentication failed")
    ELSE IF IsInstance(res, "MotApiError") THEN Return(ApiErrorMarker)
    ELSE IF IsInstance(res, "Exception") THEN Return(ApiErrorDetail(res.msg))
    ELSE res

(***************************************************************************)
(* The poll cycle.  The host's DataUpdateCoordinator runs one                *)
(* _async_update_data at a time, stores what it returns in coordinator.data *)
(* and leaves coordinator.data alone when it raises.                        *)
(***************************************************************************)
SEM_PERMITS == 2

NoResult == [t |-> "none"]

NewTask(reg, st) == [reg |-> reg, st |-> st, out |-> NoResult]

Running(ts) == {i \in 1..Len(ts) : ts[i].st = "running"}

\* asyncio.Semaphore wakes its waiters in arrival order.
NextWaiting(ts, i) ==
    /\ ts[i].st = "waiting"
    /\ \A j \in 1..(i - 1) : ts[j].st # "waiting"

AllDone(ts) == \A i \in 1..Len(ts) : ts[i].st = "done"

\* The tasks a cycle leaves behind when gather() raises: asyncio.gather does not
\* cancel its other awaitables, they keep running with the cycle's semaphore.
\* ended records how their cycle ended, st the position of each task.
LeftBehind(ts, ended) == [ended |-> ended, st |-> [i \in 1..Len(ts) |-> ts[i].st]]

Abandon(ts) ==
    [i \in 1..Len(ts) |->
        IF ts[i].st = "done" THEN ts[i] ELSE [ts[i] EXCEPT !.st = "abandoned"]]

RemoveAt(s, g) == [i \in 1..(Len(s) - 1) |-> IF i < g THEN s[i] ELSE s[i + 1]]

\* The running lookups of the g-th abandoned gather().
OrphanRunning(g) == {i \in DOMAIN orphans[g].st : orphans[g].st[i] = "running"}

\* Vehicle lookups started and not finished, over every task still alive.
InFlight ==
    Cardinality(Running(tasks))
        + Cardinality(UNION {{<<g, i>> : i \in OrphanRunning(g)} : g \in DOMAIN orphans})

\* Mutant of FreshResults: the cycle goes on filling the dict of the last one.
StaleResults == IF data.isNone THEN EmptyDict ELSE data.map

\* results: dict[str, Any] = {}
FreshResults == EmptyDict

\* Mutant of GatherComplete: the wait ends with the first finished task.
GatherCompleteFirstDone(ts) == \E i \in 1..Len(ts) : ts[i].st = "done"

\* await asyncio.gather(...) returns when every guarded(reg) has returned.
GatherComplete(ts) == AllDone(ts)

\* A cycle starts when none is running.  While async_setup_entry is followed
\* (probe.fn = "setup"), the first cycle is its first refresh and the
\* scheduled ones follow once the entry is loaded.
CanStartCycle ==
    /\ phase # "fetching"
    /\ cycles < MaxCycles
    /\ probe.fn = "setup" =>
            \/ probe.pc = "first_refresh" /\ cycles = 0
            \/ probe.pc = "loaded"

\* Options flow: the configured registration list changes, at any time.  Only
\* DvsaMotDataUpdateCoordinator holds the config entry and reads it again;
\* DvsaMotCoordinator was given the list once, as a constructor argument, and
\* nothing it does depends on the configuration afterwards, so for it the
\* changes are explored among the lists of at most one registration.
ConfigUpdate(raw) ==
    /\ raw # config
    /\ impl = "gather" => (Len(config) <= 1 /\ Len(raw) <= 1)
    /\ config' = raw
    /\ UNCHANGED <<impl, registrations, data, phase, cycles, tasks, results, orphans,
                   prevData>>
    /\ UNCHANGED tokenVars
    /\ UNCHANGED callVars

\* DvsaMotCoordinator._async_update_data up to `await asyncio.gather(...)`.
\* gather() of no awaitable is done at once and the cycle returns {}.
GatherStartCycle ==
    /\ impl = "gather"
    /\ CanStartCycle
    /\ cycles' = cycles + 1
    /\ prevData' = data
    /\ results' = FreshResults
    /\ tasks' = [i \in 1..Len(registrations) |-> NewTask(registrations[i], "waiting")]
    /\ IF registrations = <<>>
       THEN phase' = "settled" /\ data' = SomeData(EmptyDict)
       ELSE phase' = "fetching" /\ data' = data
    /\ UNCHANGED <<impl, config, registrations, orphans>>
    /\ UNCHANGED tokenVars
    /\ UNCHANGED callVars

\* guarded(reg): `async with sem` is entered and fetch(reg) starts its lookup.
GatherAcquire(i) ==
    /\ impl = "gather"
    /\ phase = "fetching"
    /\ i \in 1..Len(tasks)
    /\ NextWaiting(tasks, i)
    /\ Cardinality(Running(tasks)) < SEM_PERMITS
    /\ tasks' = [tasks EXCEPT ![i].st = "running"]
    /\ UNCHANGED <<impl, config, registrations, data, phase, cycles, results, orphans,
                   prevData>>
    /\ UNCHANGED tokenVars
    /\ UNCHANGED callVars

\* fetch(reg) gets the result of its lookup; the semaphore is released.  An
\* exception leaving fetch is the first exception of gather(): it is raised to
\* _async_update_data at once and the cycle ends, its other tasks live on.
GatherFetchDone(i, tokenResult, reply) ==
    /\ impl = "gather"
    /\ phase = "fetching"
    /\ i \in 1..Len(tasks)
    /\ tasks[i].st = "running"
    /\ LET res == VehicleByRegistration(tasks[i].reg, tokenResult, reply)
           f == GatherFetch(res)
           done == [tasks EXCEPT ![i] = [reg |-> tasks[i].reg, st |-> "done", out |-> res]]
       IN  IF f.t = "return"
           THEN /\ results' = Put(results, tasks[i].reg, f.v)
                /\ tasks' = done
                /\ UNCHANGED <<phase, orphans>>
           ELSE /\ phase' = IF f.cls = "UpdateFailed" THEN "aborted" ELSE "crashed"
                /\ tasks' = Abandon(done)
                /\ orphans' = IF AllDone(done) THEN orphans
                              ELSE Append(orphans, LeftBehind(done, phase'))
                /\ UNCHANGED results
    /\ UNCHANGED <<impl, config, registrations, data, cycles, prevData>>
    /\ UNCHANGED tokenVars
    /\ UNCHANGED callVars

\* gather() is done, `return results`: the host stores it in coordinator.data.
GatherReturn ==
    /\ impl = "gather"
    /\ phase = "fetching"
    /\ GatherComplete(tasks)
    /\ phase' = "settled"
    /\ data' = SomeData(results)
    /\ UNCHANGED <<impl, config, registrations, cycles, tasks, results, orphans, prevData>>
    /\ UNCHANGED tokenVars
    /\ UNCHANGED callVars

\* A task of an abandoned gather() enters `async with sem` of its own cycle.
OrphanAcquire(g, i) ==
    /\ g \in DOMAIN orphans
    /\ i \in DOMAIN orphans[g].st
    /\ orphans[g].st[i] = "waiting"
    /\ \A j \in 1..(i - 1) : orphans[g].st[j] # "waiting"
    /\ Cardinality(OrphanRunning(g)) < SEM_PERMITS
    /\ orphans' = [orphans EXCEPT ![g].st[i] = "running"]
    /\ UNCHANGED <<impl, config, registrations, data, phase, cycles, tasks, results,
                   prevData>>
    /\ UNCHANGED tokenVars
    /\ UNCHANGED callVars

\* A task of an abandoned gather() finishes its lookup.  What it stores goes to
\* the results dict of its own cycle, which nothing else refers to, and what it
\* raises is dropped by gather(); a group whose tasks are all done is forgotten.
OrphanFetchDone(g, i) ==
    /\ g \in DOMAIN orphans
    /\ i \in DOMAIN orphans[g].st
    /\ orphans[g].st[i] = "running"
    /\ LET grp == [orphans[g].st EXCEPT ![i] = "done"]
       IN  orphans' = IF \A j \in DOMAIN grp : grp[j] = "done"
                      THEN RemoveAt(orphans, g)
                      ELSE [orphans EXCEPT ![g].st = grp]
    /\ UNCHANGED <<impl, config, registrations, data, phase, cycles, tasks, results,
                   prevData>>
    /\ UNCHANGED tokenVars
    /\ UNCHANGED callVars

\* DvsaMotDataUpdateCoordinator._async_update_data up to its first await: the
\* registrations are read again and the first lookup starts.
SeqStartCycle ==
    /\ impl = "sequential"
    /\ CanStartCycle
    /\ cycles' = cycles + 1
    /\ prevData' = data
    /\ results' = FreshResults
    /\ LET regs == GetRegistrations(config)
       IN  /\ registrations' = regs
           /\ tasks' = [i \in 1..Len(regs) |->
                            NewTask(regs[i], IF i = 1 THEN "running" ELSE "waiting")]
           /\ IF regs = <<>>
              THEN phase' = "settled" /\ data' = SomeData(EmptyDict)
              ELSE phase' = "fetching" /\ data' = data
    /\ UNCHANGED <<impl, config, orphans>>
    /\ UNCHANGED tokenVars
    /\ UNCHANGED callVars

\* One turn of the for loop: the awaited lookup ends, its entry is stored or
\* UpdateFailed is raised, and the next lookup starts or `return results`.
SeqFetchDone(tokenResult, reply) ==
    /\ impl = "sequential"
    /\ phase = "fetching"
    /\ \E i \in 1..Len(tasks) :
        /\ tasks[i].st = "running"
        /\ LET res == VehicleByRegistration(tasks[i].reg, tokenResult, reply)
               f == SeqFetch(res)
               done == [tasks EXCEPT ![i] = [reg |-> tasks[i].reg, st |-> "done", out |-> res]]
           IN  IF f.t = "raise"
               THEN /\ phase' = IF f.cls = "UpdateFailed" THEN "aborted" ELSE "crashed"
                    /\ tasks' = Abandon(done)
                    /\ UNCHANGED <<results, data>>
               ELSE /\ results' = Put(results, tasks[i].reg, f.v)
                    /\ IF i < Len(tasks)
                       THEN /\ tasks' = [done EXCEPT ![i + 1].st = "running"]
                            /\ UNCHANGED <<phase, data>>
                       ELSE /\ tasks' = done
                            /\ phase' = "settled"
                            /\ data' = SomeData(results')
    /\ UNCHANGED <<impl, config, registrations, cycles, orphans, prevData>>
    /\ UNCHANGED tokenVars
    /\ UNCHANGED callVars

(***************************************************************************)
(* Concurrent callers of DvsaMotClient._get_token.                         *)
(***************************************************************************)
Callers == 1..NumCallers

AccessTokens == {"tokenA", "tokenB"}

TickSteps == {30}

IdleCaller == [pc |-> "idle", calledAt |-> 0, nowRead |-> 0, res |-> NoResult,
               hit |-> FALSE, lifetime |-> 0]

\* A finished call: its result, whether the cache served it, and for a returned
\* token the time from the call to the token's expires_at.
DoneCaller(res, hit, lifetime) ==
    [pc |-> "done", calledAt |-> 0, nowRead |-> 0, res |-> res, hit |-> hit,
     lifetime |-> lifetime]

\* Mutant of LockAfter: the lock is released on return only.
LockKeptOnRaise(c, res) == IF res.t = "raise" THEN c ELSE 0

\* `async with self._token_lock:` is left by caller c with result res: the
\* lock is released whether the block returned or raised.
LockAfter(c, res) == 0

\* _get_token from the moment the lock is held to its first await or its
\* return: the clock is read, the cache is tested, and on a miss the POST is
\* sent with the lock held.
EnterLock(c, calledAt) ==
    IF CacheHit(token, now)
    THEN /\ caller' = [caller EXCEPT ![c] =
                DoneCaller(Return(token.access_token), TRUE, token.expires_at - calledAt)]
         /\ lockHolder' = LockAfter(c, Return(token.access_token))
         /\ posts' = posts
    ELSE /\ caller' = [caller EXCEPT ![c] =
                [pc |-> "posting", calledAt |-> calledAt, nowRead |-> now,
                 res |-> NoResult, hit |-> FALSE, lifetime |-> 0]]
         /\ lockHolder' = c
         /\ posts' = posts + 1

\* A caller invokes _get_token.  asyncio.Lock hands the lock over in arrival
\* order: the caller takes it only if it is free and nobody waits for it.
\* Callers are interchangeable, so they are numbered in the order they call.
Call(c) ==
    /\ caller[c].pc = "idle"
    /\ \A d \in 1..(c - 1) : caller[d].pc # "idle"
    /\ herd' = (herd /\ ~CacheHit(token, now)
                     /\ \A d \in Callers : caller[d].pc # "done")
    /\ IF lockHolder = 0 /\ lockQueue = <<>>
       THEN EnterLock(c, now) /\ UNCHANGED lockQueue
       ELSE /\ caller' = [caller EXCEPT ![c].pc = "waiting", ![c].calledAt = now]
            /\ lockQueue' = Append(lockQueue, c)
            /\ UNCHANGED <<lockHolder, posts>>
    /\ UNCHANGED <<token, now>>
    /\ UNCHANGED coordVars
    /\ UNCHANGED callVars

\* The lock was released: its first waiter gets it.
Wake ==
    /\ lockHolder = 0
    /\ lockQueue # <<>>
    /\ LET c == Head(lockQueue) IN EnterLock(c, caller[c].calledAt)
    /\ lockQueue' = Tail(lockQueue)
    /\ UNCHANGED <<token, now, herd>>
    /\ UNCHANGED coordVars
    /\ UNCHANGED callVars

\* The token endpoint answers the POST of the lock holder; the rest of
\* _get_token runs and the lock is released.
Reply(c, reply) ==
    /\ caller[c].pc = "posting"
    /\ lockHolder = c
    /\ LET r == RefreshToken(token, caller[c].nowRead, reply)
       IN  /\ token' = r.token
           /\ caller' = [caller EXCEPT ![c] =
                DoneCaller(r.res, FALSE,
                           IF r.res.t = "return"
                           THEN r.token.expires_at - caller[c].calledAt ELSE 0)]
           /\ lockHolder' = LockAfter(c, r.res)
    /\ UNCHANGED <<lockQueue, now, posts, herd>>
    /\ UNCHANGED coordVars
    /\ UNCHANGED callVars

\* Time passes.
Tick(dt) ==
    /\ now < MaxTicks * dt
    /\ now' = now + dt
    /\ UNCHANGED <<token, lockHolder, lockQueue, caller, posts, herd>>
    /\ UNCHANGED coordVars
    /\ UNCHANGED callVars

(***************************************************************************)
(* One caller of DvsaMotClient.vehicle_by_registration at a time, as the   *)
(* for loop of DvsaMotDataUpdateCoordinator calls it.                      *)
(***************************************************************************)
LookupInputs == {RegA1, RegA2}

NoReply == [kind |-> "none"]

\* A call that has not sent anything yet; n calls were made before it.
NewRequest(n, raw) ==
    [pc |-> "idle", n |-> n, raw |-> raw, path |-> <<>>, nowRead |-> 0,
     tok |-> NoResult, tokenReply |-> NoReply, reply |-> NoReply, res |-> NoResult,
     gets |-> 0, tposts |-> 0]

\* Mutant of AfterReply: a 401/403 of the vehicle endpoint makes the call
\* refresh the token and send its GET again.
AfterReplyResendOnAuth(res) ==
    IF IsInstance(res, "MotAuthError") THEN "token" ELSE "done"

\* _request after the response of its GET: it returns or raises, whatever the
\* response was.
AfterReply(res) == "done"

\* vehicle_by_registration(raw) up to its first await: the path is built,
\* _get_token takes the free lock, reads the clock and tests the cache; the GET
\* is sent with the cached token, or the POST to the token endpoint is sent.
LookupCall(raw) ==
    /\ req.pc \in {"idle", "done"}
    /\ req.n < MaxLookups
    /\ LET r == [NewRequest(req.n + 1, raw) EXCEPT !.path = RequestPath(raw),
                                                   !.nowRead = now]
       IN  IF CacheHit(token, now)
           THEN /\ req' = [r EXCEPT !.pc = "get", !.tok = Return(token.access_token),
                                    !.gets = 1]
                /\ posts' = posts
           ELSE /\ req' = [r EXCEPT !.pc = "token", !.tposts = 1]
                /\ posts' = posts + 1
    /\ UNCHANGED <<token, lockHolder, lockQueue, caller, now, herd, probe>>
    /\ UNCHANGED coordVars

\* The token endpoint answers: the rest of _get_token runs.  With a token
\* _request sends its GET, without one the exception leaves the call.
LookupTokenReply(reply) ==
    /\ req.pc = "token"
    /\ LET r == RefreshToken(token, req.nowRead, reply)
       IN  /\ token' = r.token
           /\ req' = [req EXCEPT !.tok = r.res, !.tokenReply = reply,
                                 !.pc = IF r.res.t = "return" THEN "get" ELSE "done",
                                 !.res = IF r.res.t = "return" THEN NoResult ELSE r.res,
                                 !.gets = IF r.res.t = "return" THEN @ + 1 ELSE @]
    /\ UNCHANGED <<lockHolder, lockQueue, caller, now, posts, herd, probe>>
    /\ UNCHANGED coordVars

\* The vehicle endpoint answers the GET: the call returns or raises.
LookupReply(reply) ==
    /\ req.pc = "get"
    /\ LET res == VehicleByRegistration(req.raw, req.tok, reply)
           nxt == AfterReply(res)
       IN  /\ req' = [req EXCEPT !.pc = nxt, !.reply = reply, !.res = res,
                                 !.nowRead = IF nxt = "token" THEN now ELSE @,
                                 !.tposts = IF nxt = "token" THEN @ + 1 ELSE @]
           /\ posts' = IF nxt = "token" THEN posts + 1 ELSE posts
    /\ UNCHANGED <<token, lockHolder, lockQueue, caller, now, herd, probe>>
    /\ UNCHANGED coordVars

(***************************************************************************)
(* The normalization of one registration string, at each place of the      *)
(* integration that normalizes.                                            *)
(***************************************************************************)
Alphabet == {"a", "B", " ", "\t", ",", ";"}

RawStrings == UNION {[1..n -> Alphabet] : n \in 0..MaxLen}

\* What each place makes of the string raw: the client once and twice, the two
\* coordinators given the list [raw], the config flow given raw as its text,
\* and the client given each key of the coordinator.
NormalizedAt(raw) ==
    [once |-> NormalizeReg(raw),
     twice |-> NormalizeReg(NormalizeReg(raw)),
     seqKeys |-> GetRegistrations(<<raw>>),
     gatherKeys |-> InitRegistrations(<<raw>>),
     flowKeys |-> ParseRegs(raw),
     paths |-> [i \in DOMAIN GetRegistrations(<<raw>>) |->
                    RequestPath(GetRegistrations(<<raw>>)[i])]]

ApplyNormalize ==
    /\ probe.fn = "normalize"
    /\ probe.pc = "input"
    /\ probe' = [fn |-> "normalize", pc |-> "done", raw |-> probe.raw,
                 out |-> NormalizedAt(probe.raw)]
    /\ UNCHANGED <<req, token, lockHolder, lockQueue, caller, now, posts, herd>>
    /\ UNCHANGED coordVars

(***************************************************************************)
(* The sensor platform: what DvsaMotSensor.native_value and                *)
(* extra_state_attributes make of the Snapshot entry of their vehicle.      *)
(* Two modules define them: "flat" is sensor.py, "component" is             *)
(* custom_components/dvsa_mot/sensor.py.  Dates are day numbers: the days   *)
(* of the model are consecutive days of one month.                          *)
(***************************************************************************)
SensorModules == {"flat", "component"}

Days == 0..MaxDay

\* Optional values.
None == [isNone |-> TRUE]
Some(v) == [isNone |-> FALSE, v |-> v]

\* The values a date field of a payload may hold: no value (absent or null),
\* "YYYY-MM-DD", "YYYY-MM-DDTHH:MM:SSZ", "YYYY.MM.DD HH:MM:SS", or a text that
\* holds no date ("n/a").
NoField == [k |-> "none"]
IsoDate(d) == [k |-> "iso", day |-> d]
IsoDateTime(d) == [k |-> "isotime", day |-> d]
DottedDateTime(d) == [k |-> "dotted", day |-> d]
NotADate == [k |-> "text"]

\* The values the motTests field may hold besides no value: a list, a
\* non-zero number, a non-empty text.  An entry of the list is an object (a
\* record of its fields) or a text.
List(items) == [k |-> "list", items |-> items]
NotAList == {[k |-> "int"], [k |-> "str"]}
NotAnObject == [scalar |-> "str"]
IsDict(t) == "scalar" \notin DOMAIN t

\* _parse_date(value).  sensor.py: strptime(value[:10], "%Y-%m-%d").
\* custom_components: datetime.fromisoformat, then the first
\* YYYY[.-/]MM[.-/]DD found in the text.
ParseDate(module, value) ==
    CASE value.k = "none" -> None
      [] value.k = "text" -> None
      [] value.k = "iso" -> Some(value.day)
      [] value.k = "isotime" -> Some(value.day)
      [] value.k = "dotted" -> IF module = "component" THEN Some(value.day) ELSE None

\* dict.get(key), and vehicle.get("motTests") or [].
Get(d, key) == IF key \in DOMAIN d THEN d[key] ELSE NoField
MotTests(vehicle) ==
    LET v == Get(vehicle, "motTests") IN IF v.k = "none" THEN List(<<>>) ELSE v

\* _parse_dt(value) of custom_components as the sort key sees it: the day,
\* and whether the datetime carries a UTC offset (only the "...Z" form does).
ParseDt(value) ==
    LET d == ParseDate("component", value)
    IN  IF d.isNone THEN None ELSE Some([day |-> d.v, aware |-> value.k = "isotime"])

\* key(t) of _sorted_tests: the parsed completedDate, else the parsed
\* expiryDate, else datetime.min (day -1, before every day, without offset).
SortKey(t) ==
    LET dt == ParseDt(Get(t, "completedDate"))
        exp == ParseDt(Get(t, "expiryDate"))
    IN  IF ~dt.isNone THEN dt.v
        ELSE IF ~exp.isNone THEN exp.v
        ELSE [day |-> 0 - 1, aware |-> FALSE]

\* key(t) of _extract_latest_test in sensor.py: str(completedDate or ""),
\* given as the rank of that text in the order of str: "" first, then
\* "YYYY-MM-DD" < "YYYY-MM-DDT..." < the next day, then every "YYYY.MM.DD ..."
\* ("." sorts after "-"), then "n/a".
FlatKey(t) ==
    LET cd == Get(t, "completedDate")
    IN  CASE cd.k = "none" -> 0
          [] cd.k = "iso" -> 2 * cd.day + 1
          [] cd.k = "isotime" -> 2 * cd.day + 2
          [] cd.k = "dotted" -> 2 * (MaxDay + 1) + 1 + cd.day
          [] cd.k = "text" -> 3 * (MaxDay + 1) + 1

KeyRank(module, t) == IF module = "component" THEN SortKey(t).day ELSE FlatKey(t)

\* One step of sorted(tests, key=key, reverse=True): t goes behind every entry
\* whose key is not smaller (the sort is stable).
InsertDescending(module, sorted, t) ==
    LET n == Cardinality({i \in DOMAIN sorted :
                            KeyRank(module, sorted[i]) >= KeyRank(module, t)})
    IN  SubSeq(sorted, 1, n) \o <<t>> \o SubSeq(sorted, n + 1, Len(sorted))

RECURSIVE SortDescending(_, _, _)
SortDescending(module, tests, sorted) ==
    IF tests = <<>> THEN sorted
    ELSE SortDescending(module, Tail(tests), InsertDescending(module, sorted, Head(tests)))

\* datetime.__lt__ raises TypeError between a datetime with an offset and one
\* without: sorted() raises as soon as both kinds are among the keys.
MixedKeys(tests) ==
    \E i, j \in DOMAIN tests : SortKey(tests[i]).aware # SortKey(tests[j]).aware

\* _sorted_tests(vehicle) of custom_components.
SortedTests(vehicle) ==
    LET mt == MotTests(vehicle)
        tests == IF mt.k = "list" THEN SelectSeq(mt.items, IsDict) ELSE <<>>
    IN  IF mt.k = "int" THEN Raise("TypeError", "")
        ELSE IF MixedKeys(tests) THEN Raise("TypeError", "")
        ELSE Return(SortDescending("component", tests, <<>>))

\* for t in mot_tests: t.get(...) of sensor.py, which neither checks that
\* motTests is a list nor that its entries are objects.
FlatIterate(mt) ==
    IF mt.k = "int" THEN Raise("TypeError", "")
    ELSE IF mt.k = "str" THEN Raise("AttributeError", "")
    ELSE IF \E i \in DOMAIN mt.items : ~IsDict(mt.items[i])
    THEN Raise("AttributeError", "")
    ELSE Return(mt.items)

\* _extract_latest_test(vehicle)
ExtractLatestTest(module, vehicle) ==
    LET first(st) ==
            IF st.t = "raise" THEN st
            ELSE Return(IF st.v = <<>> THEN None ELSE Some(Head(st.v)))
        newest(it) ==
            IF it.t = "raise" THEN it
            ELSE Return(Some(Head(SortDescending("flat", it.v, <<>>))))
    IN  IF module = "component" THEN first(SortedTests(vehicle))
        ELSE IF MotTests(vehicle) = List(<<>>) THEN Return(None)
        ELSE newest(FlatIterate(MotTests(vehicle)))

\* The loop of _extract_current_due_date:
\*   if exp and (best is None or exp > best): best = exp
RECURSIVE Best(_, _, _)
Best(module, tests, best) ==
    IF tests = <<>> THEN best
    ELSE LET exp == ParseDate(module, Get(Head(tests), "expiryDate"))
         IN  IF ~exp.isNone /\ (best.isNone \/ exp.v > best.v)
             THEN Best(module, Tail(tests), exp)
             ELSE Best(module, Tail(tests), best)

\* _extract_current_due_date(vehicle)
ExtractCurrentDueDate(module, vehicle) ==
    LET resolve(due, tests) ==
            IF ~due.isNone THEN Return(due)
            ELSE IF tests.t = "raise" THEN tests
            ELSE Return(Best(module, tests.v, None))
    IN  resolve(ParseDate(module, Get(vehicle, "motTestDueDate")),
                IF module = "component" THEN SortedTests(vehicle)
                ELSE FlatIterate(MotTests(vehicle)))

\* The values an odometerValue field may hold besides no value: a number, a
\* text that reads as a number, a text that does not (NotADate); float(odo)
\* raises on the last and on None, which _latest_odometer catches.
Num(n) == [k |-> "num", n |-> n]
NumText(n) == [k |-> "numtext", n |-> n]
Float(odo) == IF odo.k \in {"num", "numtext"} THEN Some(odo.n) ELSE None

\* The odometerUnit field holds no value or a text; str.lower().
Str(s) == [k |-> "str", s |-> s]
LowerChar(c) ==
    CASE c = "M" -> "m"
      [] c = "I" -> "i"
      [] c = "K" -> "k"
      [] OTHER -> c
Lower(s) == [i \in 1..Len(s) |-> LowerChar(s[i])]

\* str(latest.get("odometerUnit") or "").lower().strip() or None
OdometerUnit(latest) ==
    LET u == Get(latest, "odometerUnit")
        s == IF u.k = "str" THEN Strip(Lower(u.s)) ELSE <<>>
    IN  IF s = <<>> THEN None ELSE Some(s)

\* _latest_odometer(vehicle): (odometer_value, unit, as_of_date)
LatestOdometer(vehicle) ==
    LET reading(latest) ==
            IF latest.t = "raise" THEN latest
            ELSE IF latest.v.isNone
            THEN Return([odo |-> None, unit |-> None, as_of |-> None])
            ELSE Return([odo |-> Float(Get(latest.v.v, "odometerValue")),
                         unit |-> OdometerUnit(latest.v.v),
                         as_of |-> ParseDate("component",
                                             Get(latest.v.v, "completedDate"))])
    IN  reading(ExtractLatestTest("component", vehicle))

\* A quotient of two integers, kept exact: 365.25 is 1461 / 4.
Ratio(num, den) == [num |-> num, den |-> den]

\* _avg_annual_since_registration(vehicle): (avg_value, unit), where
\* avg_value = odo / (days / 365.25).
AvgAnnualSinceRegistration(vehicle, today) ==
    LET average(reg_date, lo) ==
            IF lo.t = "raise" THEN lo
            ELSE IF reg_date.isNone \/ lo.v.odo.isNone
            THEN Return([avg |-> None, unit |-> lo.v.unit])
            ELSE IF today - reg_date.v <= 0
            THEN Return([avg |-> None, unit |-> lo.v.unit])
            ELSE Return([avg |-> Some(Ratio(lo.v.odo.v * 1461,
                                            (today - reg_date.v) * 4)),
                         unit |-> lo.v.unit])
    IN  average(ParseDate("component", Get(vehicle, "registrationDate")),
                LatestOdometer(vehicle))

\* round(avg, 0): to the nearest whole number, a half to the even one.
Round(r) ==
    LET q == r.num \div r.den
        rest == r.num % r.den
    IN  IF 2 * rest < r.den THEN q
        ELSE IF 2 * rest > r.den THEN q + 1
        ELSE IF q % 2 = 0 THEN q ELSE q + 1

\* The branch k == "status" of native_value.
Status(due, today, warnDays) ==
    IF due.isNone THEN "unknown"
    ELSE IF due.v < today THEN "expired"
    ELSE IF due.v - today <= warnDays THEN "expires_soon"
    ELSE "valid"

\* The keys of the sensors that derive their value from the payload.
SensorKeys ==
    {"due_date", "days_remaining", "status", "last_result",
     "avg_annual_mileage_since_registration"}

\* native_value of the sensor with the given key; entry is
\* coordinator.data.get(reg), None when there is no Snapshot or no entry.
\* The due date and the latest test are computed before the key is looked at.
NativeValue(module, key, entry, today, warnDays) ==
    LET value(due, latest, avg) ==
            IF due.t = "raise" THEN due
            ELSE IF latest.t = "raise" THEN latest
            ELSE CASE key = "due_date" -> Return(due.v)
                   [] key = "days_remaining" ->
                        Return(IF due.v.isNone THEN None ELSE Some(due.v.v - today))
                   [] key = "status" -> Return(Some(Status(due.v, today, warnDays)))
                   [] key = "last_result" ->
                        Return(IF latest.v.isNone THEN None
                               ELSE IF Get(latest.v.v, "testResult").k = "none" THEN None
                               ELSE Some(Get(latest.v.v, "testResult")))
                   [] key = "avg_annual_mileage_since_registration" ->
                        IF module = "flat" THEN Return(None)
                        ELSE IF avg.t = "raise" THEN avg
                        ELSE Return(IF avg.v.avg.isNone THEN None
                                    ELSE Some(Round(avg.v.avg.v)))
    IN  IF entry.isNone \/ IsNotFoundMarker(entry.v) THEN Return(None)
        ELSE value(ExtractCurrentDueDate(module, entry.v),
                   ExtractLatestTest(module, entry.v),
                   AvgAnnualSinceRegistration(entry.v, today))

\* extra_state_attributes: the marker alone for an entry that holds one, else
\* the attributes derived from the payload (the fields copied from the
\* payload as they are, make, model and the like, are left out).
\* custom_components drops the attributes that are None.
ExtraStateAttributes(module, entry, today) ==
    LET last(latest) ==
            IF latest.v.isNone THEN None
            ELSE IF Get(latest.v.v, "testResult").k = "none" THEN None
            ELSE Some(Get(latest.v.v, "testResult"))
        notNone(attrs) ==
            Return(Some([k \in {x \in DOMAIN attrs : ~attrs[x].isNone} |-> attrs[k]]))
        attributes(due, latest, lo, avg) ==
            IF due.t = "raise" THEN due
            ELSE IF latest.t = "raise" THEN latest
            ELSE IF module = "flat"
            THEN Return(Some([mot_due_date |-> due.v,
                              last_test_result |-> last(latest)]))
            ELSE IF avg.t = "raise" THEN avg
            ELSE notNone([mot_due_date |-> due.v,
                          last_test_result |-> last(latest),
                          latest_odometer |-> lo.v.odo,
                          latest_odometer_unit |-> lo.v.unit])
    IN  IF entry.isNone THEN Return(None)
        ELSE IF "_error" \in DOMAIN entry.v
        THEN Return(Some([error |-> entry.v._error]))
        ELSE attributes(ExtractCurrentDueDate(module, entry.v),
                        ExtractLatestTest(module, entry.v),
                        LatestOdometer(entry.v),
                        AvgAnnualSinceRegistration(entry.v, today))

\* self.coordinator.data.get(self._reg) if self.coordinator.data else None:
\* no Snapshot and an empty Snapshot give None, like a missing key.
Entry(snapshot, reg) ==
    IF snapshot.isNone THEN None
    ELSE IF snapshot.map = EmptyDict THEN None
    ELSE IF reg \in DOMAIN snapshot.map THEN Some(snapshot.map[reg])
    ELSE None

\* Mutant of Available: every error marker makes the entities unavailable.
AvailableUnlessMarker(entry) ==
    IF entry.isNone \/ ~IsDict(entry.v) THEN FALSE
    ELSE "_error" \notin DOMAIN entry.v

\* available of DvsaMotSensor (both modules) and of DvsaMotBinarySensor:
\*   if not isinstance(data, dict): return False
\*   return data.get("_error") != "api_error"
Available(entry) ==
    IF entry.isNone \/ ~IsDict(entry.v) THEN FALSE
    ELSE ~("_error" \in DOMAIN entry.v /\ entry.v._error = "api_error")

\* is_on of DvsaMotBinarySensor (key recall_status): None without an entry
\* and for a not_found marker, else the truth of hasOutstandingRecall, a text
\* being true when it reads "true" in any case.
IsOn(entry) ==
    LET truth(val) ==
            CASE val.k = "str" -> Lower(val.s) = <<"t", "r", "u", "e">>
              [] val.k = "bool" -> val.b
              [] OTHER -> FALSE
    IN  IF entry.isNone \/ ~IsDict(entry.v) THEN None
        ELSE IF IsNotFoundMarker(entry.v) THEN None
        ELSE Some(truth(Get(entry.v, "hasOutstandingRecall")))

\* What a vehicle's entities report when they are read: native_value of each
\* sensor key, extra_state_attributes, and the extractors behind them
\* (sensor.py has no _sorted_tests, _latest_odometer or
\* _avg_annual_since_registration).
NoSuchFunction == [t |-> "none"]

SensorReadings(module, entry, today, warnDays) ==
    [value |-> [key \in SensorKeys |-> NativeValue(module, key, entry, today, warnDays)],
     attributes |-> ExtraStateAttributes(module, entry, today),
     sorted |-> IF module = "component" /\ ~entry.isNone
                THEN SortedTests(entry.v) ELSE NoSuchFunction,
     latest |-> IF entry.isNone THEN NoSuchFunction
                ELSE ExtractLatestTest(module, entry.v),
     due |-> IF entry.isNone THEN NoSuchFunction
             ELSE ExtractCurrentDueDate(module, entry.v),
     odometer |-> IF module = "component" /\ ~entry.isNone
                  THEN LatestOdometer(entry.v) ELSE NoSuchFunction,
     average |-> IF module = "component" /\ ~entry.isNone
                 THEN AvgAnnualSinceRegistration(entry.v, today) ELSE NoSuchFunction]

\* The payloads, entries and settings the sensors are evaluated on.
DateValues ==
    {NoField, NotADate, DottedDateTime(1)} \cup {IsoDate(d) : d \in Days}

Histories(entries) == UNION {[1..n -> entries] : n \in 0..MaxTests}

\* Payloads with a due date and no history, read on every day with every
\* warning threshold.
StatusVehicles == {[motTestDueDate |-> v, motTests |-> List(<<>>)] : v \in DateValues}

WarnDays == (0 - 1)..MaxWarn

\* Payloads with a due date and a history of expiry dates, all timestamps
\* without offset.
HistoryEntries ==
    {[expiryDate |-> e, completedDate |-> c] :
        e \in {NoField, NotADate} \cup {IsoDate(d) : d \in {0, 1, MaxDay}},
        c \in {NoField, DottedDateTime(0)}}

Vehicles(entries) ==
    {[motTestDueDate |-> v, motTests |-> List(h)] :
        v \in DateValues, h \in Histories(entries)}

\* Malformed payloads: motTests null, not a list, or holding an entry that is
\* no object; completion timestamps missing, unparseable, with and without
\* offset.
MalformedEntries ==
    {NotAnObject} \cup
    {[expiryDate |-> e, completedDate |-> c] :
        e \in {NoField, IsoDate(MaxDay)},
        c \in {NoField, NotADate, IsoDateTime(1), DottedDateTime(0)}}

MalformedVehicles(entries) ==
    {[motTestDueDate |-> v, motTests |-> m] :
        v \in {NoField, IsoDate(1)},
        m \in {NoField} \cup NotAList \cup {List(h) : h \in Histories(entries)}}

\* Payloads with a registration date and odometer readings.
OdometerEntries ==
    {[completedDate |-> IsoDate(d), odometerValue |-> r.value, odometerUnit |-> r.unit,
      odometerResultType |-> r.type, testResult |-> Str(<<"P">>)] :
        d \in {0, 1},
        r \in {[value |-> Num(1), unit |-> Str(<<"m", "i">>), type |-> "READ"],
               [value |-> NumText(2), unit |-> Str(<<"m", "i">>), type |-> "READ"],
               [value |-> Num(2), unit |-> Str(<<"K", "M", " ">>), type |-> "READ"],
               [value |-> NotADate, unit |-> NoField, type |-> "NO_ODOMETER"]}}

OdometerVehicles(entries) ==
    {[registrationDate |-> r, motTests |-> List(h)] :
        r \in {NoField, NotADate, IsoDate(0), IsoDate(MaxDay)},
        h \in Histories(entries)}

\* What the Snapshot holds for a vehicle that is no payload: a marker, or
\* nothing.
MarkerEntries ==
    {Some(NotFoundMarker), Some(ApiErrorMarker), Some(ApiErrorMessage("HTTP 500")),
     Some(ApiErrorDetail("TimeoutError")), None}

\* The entries, days and thresholds the entities of a module are read on;
\* only custom_components reads the odometer.
SensorEntries(module) ==
    {[entry |-> Some(v), today |-> t, warn_days |-> w] :
        v \in StatusVehicles, t \in Days, w \in WarnDays}
    \cup {[entry |-> Some(v), today |-> 1, warn_days |-> 0] :
            v \in Vehicles(HistoryEntries) \cup MalformedVehicles(MalformedEntries)}
    \cup {[entry |-> Some(v), today |-> t, warn_days |-> 0] :
            v \in IF module = "component" THEN OdometerVehicles(OdometerEntries) ELSE {},
            t \in Days}
    \cup {[entry |-> e, today |-> 1, warn_days |-> 0] : e \in MarkerEntries}

\* The entities of one vehicle are read.
ReadSensors ==
    /\ probe.fn = "sensor"
    /\ probe.pc = "input"
    /\ probe' = [fn |-> "sensor", pc |-> "done", module |-> probe.module,
                 entry |-> probe.entry, today |-> probe.today,
                 warn_days |-> probe.warn_days,
                 out |-> SensorReadings(probe.module, probe.entry, probe.today,
                                        probe.warn_days)]
    /\ UNCHANGED <<req, token, lockHolder, lockQueue, caller, now, posts, herd>>
    /\ UNCHANGED coordVars

(***************************************************************************)
(* The state after construction.                                           *)
(***************************************************************************)
Constructed ==
    /\ impl \in {"gather", "sequential"}
    /\ config \in RawConfigs
    /\ registrations = IF impl = "gather" THEN InitRegistrations(config)
                       ELSE GetRegistrations(config)
    /\ data = NoneData
    /\ phase = "idle"
    /\ cycles = 0
    /\ tasks = <<>>
    /\ results = EmptyDict
    /\ orphans = <<>>
    /\ prevData = NoneData
    /\ token = NoToken
    /\ lockHolder = 0
    /\ lockQueue = <<>>
    /\ caller = <<>>
    /\ now = 0
    /\ posts = 0
    /\ herd = TRUE
    /\ req = NoRequest

\* A coordinator in service, polled on its schedule.
Init ==
    /\ Constructed
    /\ probe = NoProbe

Next ==
    \/ \E raw \in RawConfigs : ConfigUpdate(raw)
    \/ GatherStartCycle
    \/ \E i \in DOMAIN tasks : GatherAcquire(i)
    \/ \E i \in DOMAIN tasks, tr \in TokenResults, reply \in VehicleReplies :
            GatherFetchDone(i, tr, reply)
    \/ GatherReturn
    \/ \E g \in DOMAIN orphans : \E i \in DOMAIN orphans[g].st : OrphanAcquire(g, i)
    \/ \E g \in DOMAIN orphans : \E i \in DOMAIN orphans[g].st : OrphanFetchDone(g, i)
    \/ SeqStartCycle
    \/ \E tr \in TokenResults, reply \in VehicleReplies : SeqFetchDone(tr, reply)

Spec == Init /\ [][Next]_vars

\* A constructed client with NumCallers tasks about to call _get_token.
InitToken ==
    /\ impl = "gather"
    /\ config = <<>>
    /\ registrations = <<>>
    /\ data = NoneData
    /\ phase = "idle"
    /\ cycles = 0
    /\ tasks = <<>>
    /\ results = EmptyDict
    /\ orphans = <<>>
    /\ prevData = NoneData
    /\ token = NoToken
    /\ lockHolder = 0
    /\ lockQueue = <<>>
    /\ caller = [c \in Callers |-> IdleCaller]
    /\ now = 0
    /\ posts = 0
    /\ herd = TRUE
    /\ req = NoRequest
    /\ probe = NoProbe

NextToken ==
    \/ \E c \in Callers : Call(c)
    \/ Wake
    \/ \E c \in Callers, a \in AccessTokens :
            \E reply \in TokenReplies(a) : Reply(c, reply)
    \/ \E dt \in TickSteps : Tick(dt)

SpecToken == InitToken /\ [][NextToken]_vars

\* The same callers within one instant of the clock: whether the cache serves
\* a call is then decided by the lifetime of the token the endpoint returned
\* (expires_in 60 is stale at once).  The event loop runs every task that can
\* run, and every POST gets its answer or its timeout.
LockReplies ==
    {HttpTokenReply(200, "tokenA", FALSE, 0),
     HttpTokenReply(200, "tokenA", TRUE, 60),
     HttpTokenReply(200, "", FALSE, 0),
     HttpTokenReply(401, "", FALSE, 0),
     HttpTokenReply(500, "", FALSE, 0),
     [kind |-> "client_error"],
     [kind |-> "timeout"]}

NextLock ==
    \/ \E c \in Callers : Call(c)
    \/ Wake
    \/ \E c \in Callers, reply \in LockReplies : Reply(c, reply)

SpecLock ==
    /\ InitToken
    /\ [][NextLock]_vars
    /\ WF_vars(Wake)
    /\ \A c \in Callers : WF_vars(\E reply \in LockReplies : Reply(c, reply))

\* A constructed client about to be asked for vehicles, one call at a time.
InitClient ==
    /\ impl = "sequential"
    /\ config = <<>>
    /\ registrations = <<>>
    /\ data = NoneData
    /\ phase = "idle"
    /\ cycles = 0
    /\ tasks = <<>>
    /\ results = EmptyDict
    /\ orphans = <<>>
    /\ prevData = NoneData
    /\ token = NoToken
    /\ lockHolder = 0
    /\ lockQueue = <<>>
    /\ caller = <<>>
    /\ now = 0
    /\ posts = 0
    /\ herd = TRUE
    /\ req = NewRequest(0, <<>>)
    /\ probe = NoProbe

NextClient ==
    \/ \E raw \in LookupInputs : LookupCall(raw)
    \/ \E a \in AccessTokens : \E reply \in ClientTokenReplies(a) : LookupTokenReply(reply)
    \/ \E reply \in ClientVehicleReplies : LookupReply(reply)
    \/ \E dt \in TickSteps : Tick(dt)

SpecClient == InitClient /\ [][NextClient]_vars

\* Everything but probe, as it is when nothing has run yet.
Quiet ==
    /\ impl = "sequential"
    /\ config = <<>>
    /\ registrations = <<>>
    /\ data = NoneData
    /\ phase = "idle"
    /\ cycles = 0
    /\ tasks = <<>>
    /\ results = EmptyDict
    /\ orphans = <<>>
    /\ prevData = NoneData
    /\ token = NoToken
    /\ lockHolder = 0
    /\ lockQueue = <<>>
    /\ caller = <<>>
    /\ now = 0
    /\ posts = 0
    /\ herd = TRUE
    /\ req = NoRequest

\* A registration string about to be normalized.
InitNormalize ==
    /\ Quiet
    /\ probe \in {[fn |-> "normalize", pc |-> "input", raw |-> raw] : raw \in RawStrings}

NextNormalize == ApplyNormalize

SpecNormalize == InitNormalize /\ [][NextNormalize]_vars

\* The entities of a vehicle about to be read.
InitSensor ==
    /\ Quiet
    /\ \E m \in SensorModules :
            probe \in {[fn |-> "sensor", pc |-> "input", module |-> m, entry |-> e.entry,
                        today |-> e.today, warn_days |-> e.warn_days] :
                            e \in SensorEntries(m)}

NextSensor == ReadSensors

SpecSensor == InitSensor /\ [][NextSensor]_vars

(***************************************************************************)
(* async_setup_entry: the coordinator is constructed, refreshed for the     *)
(* first time, stored, and the platforms are set up.                        *)
(***************************************************************************)
\* coordinator.async_config_entry_first_refresh() of the host's
\* DataUpdateCoordinator: it runs one cycle and returns when the cycle
\* returned; when the cycle raised, whatever it raised, it raises
\* ConfigEntryNotReady.
FirstRefresh(ended) ==
    IF ended = "settled" THEN Return("refreshed")
    ELSE Raise("ConfigEntryNotReady", "")

\* The rest of async_setup_entry once the first refresh has ended:
\*   try: await coordinator.async_config_entry_first_refresh()
\*   except UpdateFailed: pass
\* then the coordinator is stored and the platforms are forwarded; any other
\* exception leaves async_setup_entry and the entry is not loaded.
AsyncSetupEntry ==
    /\ probe.fn = "setup"
    /\ probe.pc = "first_refresh"
    /\ cycles = 1
    /\ phase \in {"settled", "aborted", "crashed"}
    /\ LET r == FirstRefresh(phase)
       IN  probe' = [probe EXCEPT
                !.pc = IF r.t = "return" \/ IsInstance(r, "UpdateFailed")
                       THEN "loaded" ELSE "not_loaded",
                !.first = phase]
    /\ UNCHANGED req
    /\ UNCHANGED tokenVars
    /\ UNCHANGED coordVars

InitSetup ==
    /\ Constructed
    /\ probe = [fn |-> "setup", pc |-> "first_refresh", first |-> "none"]

NextSetup == Next \/ AsyncSetupEntry

SpecSetup == InitSetup /\ [][NextSetup]_vars

(***************************************************************************)
(* Properties of the poll cycle (Spec).                                    *)
(***************************************************************************)
Range(f) == {f[i] : i \in DOMAIN f}

AuthErrorSeen == \E i \in DOMAIN tasks : IsInstance(tasks[i].out, "MotAuthError")

\* What the running coordinator makes of a lookup result.
Fetch(res) == IF impl = "gather" THEN GatherFetch(res) ELSE SeqFetch(res)

\* C1: a cycle in which a lookup failed with an authentication error has ended
\* by raising UpdateFailed, and coordinator.data is the Snapshot that was
\* visible when the cycle started.
C1_AuthErrorAbortsCycle ==
    AuthErrorSeen => (phase = "aborted" /\ data = prevData)

\* An aborted cycle that had already stored an entry, after a settled one.
C1_Witness ==
    /\ phase = "aborted"
    /\ AuthErrorSeen
    /\ ~data.isNone
    /\ \E i \in DOMAIN tasks : tasks[i].out.t = "return"

\* Every cycle that left tasks behind was aborted by an authentication error.
OnlyAuthAborts == \A g \in DOMAIN orphans : orphans[g].ended = "aborted"

\* C4: at every instant at most 2 vehicle lookups are in flight, also after a
\* cycle was aborted by an authentication error and the following cycle has
\* started (stated for the runs whose only failed cycles are such aborts).
C4_AtMostTwoLookupsInFlight == OnlyAuthAborts => InFlight <= 2

\* The cycles (the current one and the abandoned ones) with a running lookup.
CyclesWithLookups ==
    (IF Running(tasks) # {} THEN {0} ELSE {})
        \cup {g \in DOMAIN orphans : OrphanRunning(g) # {}}

\* C9: lookups of two different poll cycles are never in progress together,
\* also when the earlier cycle ended by an authentication abort (stated for the
\* runs whose only failed cycles are such aborts).
C9_CyclesNeverOverlap == OnlyAuthAborts => Cardinality(CyclesWithLookups) <= 1

\* A lookup that failed with MotApiError itself (HTTP 500, not 404, not 401/403).
IsPlainApiError(res) == res.t = "raise" /\ res.cls = "MotApiError"

\* C5: a cycle that has ended without an authentication error, one of whose
\* lookups failed with ApiError, has settled, with an api_error entry for that
\* vehicle and for every vehicle an entry made from one of its own lookups.
C5_ErrorIsolation ==
    (/\ phase \in {"settled", "aborted", "crashed"}
     /\ ~AuthErrorSeen
     /\ \E i \in DOMAIN tasks : IsPlainApiError(tasks[i].out))
        => /\ phase = "settled"
           /\ \A i \in DOMAIN tasks :
                /\ tasks[i].reg \in DOMAIN data.map
                /\ \E j \in DOMAIN tasks :
                        /\ tasks[j].reg = tasks[i].reg
                        /\ data.map[tasks[i].reg] = Fetch(tasks[j].out).v
           /\ \A i \in DOMAIN tasks :
                (\A j \in DOMAIN tasks :
                    tasks[j].reg = tasks[i].reg => IsPlainApiError(tasks[j].out))
                    => IsApiErrorMarker(data.map[tasks[i].reg])

\* C6: in a settled cycle a vehicle whose lookups all returned HTTP 404 has the
\* entry {_error: "not_found"}.
C6_NotFoundMarker ==
    phase = "settled" =>
        \A i \in DOMAIN tasks :
            (\A j \in DOMAIN tasks :
                tasks[j].reg = tasks[i].reg => IsInstance(tasks[j].out, "MotNotFoundError"))
                => data.map[tasks[i].reg] = NotFoundMarker

\* C7: the Snapshot of a settled cycle has exactly the tracked registrations of
\* that cycle as keys, and each entry is made from a lookup of that cycle.
C7_SnapshotOfThisCycleOnly ==
    phase = "settled" =>
        /\ ~data.isNone
        /\ DOMAIN data.map = Range(registrations)
        /\ \A k \in DOMAIN data.map :
                \E i \in DOMAIN tasks :
                    /\ tasks[i].reg = k
                    /\ tasks[i].st = "done"
                    /\ Fetch(tasks[i].out) = Return(data.map[k])

\* A settled cycle where an earlier success has become an error marker.
C7_Witness ==
    /\ phase = "settled"
    /\ ~prevData.isNone
    /\ \E k \in (DOMAIN data.map) \cap (DOMAIN prevData.map) :
            /\ "_error" \notin DOMAIN prevData.map[k]
            /\ IsApiErrorMarker(data.map[k])

\* C8: coordinator.data changes only by being replaced with the complete
\* results of a cycle that has settled; while lookups complete one by one the
\* visible Snapshot stays the previous one.
C8_AtomicReplacement ==
    [][data' # data =>
            /\ phase' = "settled"
            /\ AllDone(tasks')
            /\ ~data'.isNone
            /\ DOMAIN data'.map = Range(registrations')]_vars

\* A cycle in progress holding an entry that differs from the visible one.
C8_Witness ==
    /\ phase = "fetching"
    /\ ~data.isNone
    /\ \E k \in (DOMAIN results) \cap (DOMAIN data.map) : results[k] # data.map[k]

\* A lookup that raised an exception that is no MotApiError (so neither
\* MotAuthError nor MotNotFoundError).
IsUnexpected(res) == res.t = "raise" /\ ~IsInstance(res, "MotApiError")

\* C15: a cycle that has ended without an authentication error, one of whose
\* lookups raised an unexpected exception, has settled: every tracked vehicle
\* has an entry, and a vehicle whose lookups all raised unexpected exceptions
\* has an api_error marker.
C15_UnexpectedExceptionIsolated ==
    (/\ phase \in {"settled", "aborted", "crashed"}
     /\ ~AuthErrorSeen
     /\ \E i \in DOMAIN tasks : IsUnexpected(tasks[i].out))
        => /\ phase = "settled"
           /\ \A i \in DOMAIN tasks : tasks[i].reg \in DOMAIN data.map
           /\ \A i \in DOMAIN tasks :
                (\A j \in DOMAIN tasks :
                    tasks[j].reg = tasks[i].reg => IsUnexpected(tasks[j].out))
                    => IsApiErrorMarker(data.map[tasks[i].reg])

\* The registrations the lookups of the cycle are for.
LookedUp(ts) == {ts[i].reg : i \in DOMAIN ts}

\* C16: a step that starts a cycle makes the tracked list the normalized
\* registrations configured at that moment and starts lookups for exactly
\* these; no other step changes the tracked list or the set of vehicles the
\* cycle looks up.
C16_ListRereadEachCycle ==
    [][/\ cycles' = cycles + 1 =>
            /\ Range(registrations') = Range(GetRegistrations(config))
            /\ LookedUp(tasks') = Range(registrations')
       /\ cycles' = cycles =>
            /\ registrations' = registrations
            /\ LookedUp(tasks') = LookedUp(tasks)]_vars

\* No element of the list occurs twice.
NoDuplicates(list) ==
    \A i, j \in DOMAIN list : i # j => list[i] # list[j]

\* C17: the tracked list holds no normalized identifier twice, and no cycle
\* has two lookups for one identifier.
C17_TrackedOnce ==
    /\ NoDuplicates(registrations)
    /\ NoDuplicates([i \in DOMAIN tasks |-> tasks[i].reg])

(***************************************************************************)
(* Properties of the token cache (SpecToken).                              *)
(***************************************************************************)
Finished == {c \in Callers : caller[c].pc = "done"}

\* C2: when the callers all invoked _get_token together while no valid cached
\* token existed and all have finished, exactly one POST was sent.
C2_ExactlyOnePost ==
    (/\ herd
     /\ Finished # {}
     /\ \A c \in Callers : caller[c].pc \in {"idle", "done"})
        => posts = 1

\* C3: a token returned by _get_token expires more than 60 seconds after the
\* call was made.
C3_ReturnedTokenOutlivesMargin ==
    \A c \in Finished : caller[c].res.t = "return" => caller[c].lifetime > 60

\* The caller c takes the token lock in this step.
TakesLock(c) ==
    /\ caller[c].pc \in {"idle", "waiting"}
    /\ caller'[c].pc \in {"posting", "done"}

\* C10: a call that takes the lock while the cached token expires more than 60
\* seconds after now returns that access_token, sends no POST and leaves the
\* cache unchanged.
C10_CachedTokenServed ==
    [][\A c \in Callers :
            (TakesLock(c) /\ token.set /\ token.expires_at - now > 60)
                => /\ caller'[c].pc = "done"
                   /\ caller'[c].res = Return(token.access_token)
                   /\ posts' = posts
                   /\ token' = token]_vars

\* A call served from the cache, some time after the refresh that filled it.
C10_Witness ==
    \E c \in Finished : caller[c].hit /\ posts = 1 /\ now > 0

\* The answers of the token endpoint that carry an HTTP status and give no
\* token: a status from 400 up, or a success without access_token.
StatusFailures ==
    {r \in TokenReplies("tokenA") :
        r.kind = "http" /\ (r.status >= 400 \/ r.access_token = "")}

\* C14: a refresh that the token endpoint answers with 401 or 403 fails with
\* MotAuthError, one answered with another status from 400 up or with a success
\* response without access_token fails with MotApiError; each leaves the cache
\* as it was, and a call that takes the lock while the cache is unset sends a
\* new POST.
C14_FailedRefreshLeavesCache ==
    [][/\ \A c \in Callers :
            (caller[c].pc = "posting" /\ caller'[c].res.t = "raise") =>
                \A reply \in StatusFailures :
                    Reply(c, reply) =>
                        /\ caller'[c].res.cls =
                                (IF reply.status \in {401, 403} THEN "MotAuthError"
                                 ELSE "MotApiError")
                        /\ token' = token
       /\ \A c \in Callers :
            (TakesLock(c) /\ ~token.set) =>
                (caller'[c].pc = "posting" /\ posts' = posts + 1)]_vars

\* After a refresh that failed with MotAuthError the cache is unset and a later
\* call has sent the second POST.
C14_Witness ==
    /\ ~token.set
    /\ posts = 2
    /\ \E c \in Finished : IsInstance(caller[c].res, "MotAuthError")
    /\ \E c \in Callers : caller[c].pc = "posting"

(***************************************************************************)
(* Properties of one vehicle lookup (SpecClient).                          *)
(***************************************************************************)
\* The call has ended after a GET that the vehicle endpoint answered with an
\* HTTP status.
AnsweredWithStatus == req.pc = "done" /\ req.reply.kind = "http"

\* C11: a call whose GET was answered with an HTTP status ends with
\* MotNotFoundError for 404, MotAuthError for 401 and 403, MotApiError itself
\* for every other status from 400 up, and returns the decoded body for a
\* status below 400.
C11_StatusDecidesOutcome ==
    AnsweredWithStatus =>
        LET st == req.reply.status IN
        /\ st = 404 => (req.res.t = "raise" /\ req.res.cls = "MotNotFoundError")
        /\ st \in {401, 403} => (req.res.t = "raise" /\ req.res.cls = "MotAuthError")
        /\ (st >= 400 /\ st \notin {401, 403, 404})
                => (req.res.t = "raise" /\ req.res.cls = "MotApiError")
        /\ st < 400 => req.res = Return(req.reply.body)

\* A call that ended with MotAuthError after a 403 of the vehicle endpoint.
C11_Witness ==
    /\ AnsweredWithStatus
    /\ req.reply.status = 403
    /\ IsInstance(req.res, "MotAuthError")

\* The call has ended on a failure that is not an HTTP status: a connection
\* error, a timeout, or a success response that cannot be decoded as JSON.
NoStatusFailure ==
    /\ req.pc = "done"
    /\ \/ req.reply.kind \in {"client_error", "timeout", "wrong_content_type",
                              "malformed_json"}
       \/ req.tokenReply.kind \in {"client_error", "timeout", "wrong_content_type",
                                   "malformed_json"}

\* C12: a call that failed without an HTTP status failed with MotApiError.
C12_OnlyApiErrorEscapes ==
    NoStatusFailure => IsInstance(req.res, "MotApiError")

\* C13 as amended: a call never sends more than one GET and never more than
\* one POST; a call that has ended sent exactly one GET when _get_token gave it
\* a token and none when _get_token failed.
C13_AtMostOneRoundTripEach ==
    /\ req.gets <= 1
    /\ req.tposts <= 1
    /\ req.pc = "done" => req.gets = (IF req.tok.t = "return" THEN 1 ELSE 0)

\* C13 as stated: every call that has ended sent exactly one GET.
C13_ExactlyOneGet == req.pc = "done" => req.gets = 1

\* A call that ended on a 401 of the vehicle endpoint, after one POST that
\* refreshed the token and one GET.
C13_Witness ==
    /\ AnsweredWithStatus
    /\ req.reply.status = 401
    /\ req.tposts = 1
    /\ req.gets = 1

(***************************************************************************)
(* Properties of the normalization (SpecNormalize).                        *)
(***************************************************************************)
HasSeparator(raw) == \E i \in DOMAIN raw : raw[i] \in {",", ";"}

\* C18: normalizing twice gives what normalizing once gives; the two
\* coordinators and, for a text without separators, the config flow track
\* exactly the string the client makes of the same input (nothing when that
\* string is empty); and the path the client builds from a tracked key is the
\* key itself.
C18_NormalizeIdempotentEverywhere ==
    probe.pc = "done" =>
        LET o == probe.out
            tracked == IF o.once = <<>> THEN <<>> ELSE <<o.once>>
        IN  /\ o.twice = o.once
            /\ o.seqKeys = tracked
            /\ o.gatherKeys = tracked
            /\ ~HasSeparator(probe.raw) => o.flowKeys = tracked
            /\ o.paths = o.seqKeys

\* A lower-case string with a space inside, normalized.
C18_Witness ==
    /\ probe.pc = "done"
    /\ probe.raw = <<"a", " ", "B">>
    /\ probe.out.once = <<"A", "B">>
    /\ probe.out.seqKeys = <<<<"A", "B">>>>

(***************************************************************************)
(* Properties of the sensors (SpecSensor).                                 *)
(***************************************************************************)
\* The sensors were read on an entry that is a vehicle payload.
ReadVehicle ==
    /\ probe.pc = "done"
    /\ ~probe.entry.isNone
    /\ "_error" \notin DOMAIN probe.entry.v

\* C19: read on a vehicle payload, the status sensor is "unknown" when no due
\* date is resolved; otherwise "expired" exactly when the due date is before
\* today, "expires_soon" exactly when the due date is from 0 to warn_days days
\* after today, and "valid" in every other case.
C19_StatusByDueDate ==
    ReadVehicle =>
        LET d == IF probe.out.due.t = "return" THEN probe.out.due.v ELSE None
            status == probe.out.value["status"]
            st == status.v.v
        IN  /\ status.t = "return"
            /\ ~status.v.isNone
            /\ d.isNone => st = "unknown"
            /\ ~d.isNone =>
                /\ st = "expired" <=> d.v < probe.today
                /\ st = "expires_soon" <=>
                        (0 <= d.v - probe.today /\ d.v - probe.today <= probe.warn_days)
                /\ st = "valid" <=>
                        (d.v >= probe.today /\ d.v - probe.today > probe.warn_days)

\* A vehicle due today, read with a threshold of 0 days: expires_soon.
C19_Witness ==
    /\ ReadVehicle
    /\ probe.out.due = Return(Some(probe.today))
    /\ probe.warn_days = 0
    /\ probe.out.value["status"] = Return(Some("expires_soon"))

\* The object entries of the history of a payload.
HistoryObjects(vehicle) ==
    LET mt == MotTests(vehicle)
    IN  IF mt.k = "list" THEN {t \in Range(mt.items) : IsDict(t)} ELSE {}

\* The days the expiryDate fields of the history entries parse to.
ExpiryDays(module, vehicle) ==
    {ParseDate(module, Get(t, "expiryDate")).v :
        t \in {x \in HistoryObjects(vehicle) :
                    ~ParseDate(module, Get(x, "expiryDate")).isNone}}

\* C20: read on a vehicle payload, the due date is the top-level
\* motTestDueDate when it parses; otherwise the greatest day an expiryDate of
\* the history parses to; and it is absent exactly when neither exists.
C20_DueDateResolution ==
    ReadVehicle =>
        LET m == probe.module
            top == ParseDate(m, Get(probe.entry.v, "motTestDueDate"))
            exps == ExpiryDays(m, probe.entry.v)
            due == probe.out.due
        IN  /\ due.t = "return"
            /\ ~top.isNone => due.v = top
            /\ (top.isNone /\ exps # {}) =>
                    /\ ~due.v.isNone
                    /\ due.v.v \in exps
                    /\ \A e \in exps : e <= due.v.v
            /\ due.v.isNone <=> (top.isNone /\ exps = {})

\* A top-level due date that wins over a later expiryDate of the history.
C20_Witness ==
    /\ ReadVehicle
    /\ Get(probe.entry.v, "motTestDueDate") = IsoDate(0)
    /\ \E t \in HistoryObjects(probe.entry.v) : Get(t, "expiryDate") = IsoDate(MaxDay)
    /\ probe.out.due = Return(Some(0))

\* The day the completion timestamp of a history entry parses to, if any.
Completed(module, t) == ParseDate(module, Get(t, "completedDate"))

\* Entry a does not come after entry b in the order by completion timestamp:
\* if b has a parseable one, a has one that is not earlier.
NotOlder(module, a, b) ==
    ~Completed(module, b).isNone =>
        /\ ~Completed(module, a).isNone
        /\ Completed(module, a).v >= Completed(module, b).v

\* C21: whenever _sorted_tests returns, it returns the object entries of the
\* history in descending order of parsed completion timestamp, the entries
\* without a parseable one after all the others; and whenever the latest test
\* is returned, it is the head of that order: an entry that no entry with a
\* parseable completion timestamp is newer than, or none for a history
\* without entries.
C21_SortedByCompletion ==
    ReadVehicle =>
        LET m == probe.module
            st == probe.out.sorted
            latest == probe.out.latest
            tests == HistoryObjects(probe.entry.v)
        IN  /\ st.t = "return" =>
                /\ Range(st.v) = tests
                /\ \A i, j \in DOMAIN st.v : i < j => NotOlder(m, st.v[i], st.v[j])
                /\ latest = Return(IF st.v = <<>> THEN None ELSE Some(Head(st.v)))
            /\ latest.t = "return" =>
                /\ latest.v.isNone <=> tests = {}
                /\ ~latest.v.isNone =>
                    /\ latest.v.v \in tests
                    /\ \A u \in tests : NotOlder(m, latest.v.v, u)

\* The results of the extractors of the module that was read.
ExtractorResults ==
    <<probe.out.sorted, probe.out.latest, probe.out.due, probe.out.odometer,
      probe.out.average>>

\* C22: read on a vehicle payload, however malformed, no extractor (sorted
\* tests, latest test, due date, latest odometer, since-registration average)
\* raises; and the sorted tests of a payload whose motTests is missing or
\* empty are the empty sequence.
C22_ExtractorsTotal ==
    ReadVehicle =>
        /\ \A i \in DOMAIN ExtractorResults : ExtractorResults[i].t # "raise"
        /\ (probe.module = "component" /\ MotTests(probe.entry.v) = List(<<>>)) =>
                probe.out.sorted = Return(<<>>)

\* The readings the two-point estimate is made of: the entries of the sorted
\* tests with an OK odometer reading and a unit that is mi or km.
Usable(t) ==
    /\ Get(t, "odometerResultType") = "READ"
    /\ ~Float(Get(t, "odometerValue")).isNone
    /\ OdometerUnit(t) \in {Some(<<"m", "i">>), Some(<<"k", "m">>)}

\* Two quotients are the same number.
SameRatio(a, b) == a.num * b.den = b.num * a.den

\* C24: whenever the annual mileage of a vehicle payload is estimated, the
\* estimate is the two-point one: none when fewer than two usable readings
\* exist, the units of the two most recent ones differ, no day lies between
\* them or the distance did not grow; otherwise
\* (newer - older) / elapsed_days * 365.25.
C24_TwoPointEstimate ==
    (ReadVehicle /\ probe.module = "component"
        /\ probe.out.sorted.t = "return" /\ probe.out.average.t = "return") =>
        LET usable == SelectSeq(probe.out.sorted.v, Usable)
            newer == usable[1]
            older == usable[2]
            elapsed == Completed("component", newer).v - Completed("component", older).v
            delta == Float(newer.odometerValue).v - Float(older.odometerValue).v
            avg == probe.out.average.v.avg
        IN  IF \/ Len(usable) < 2
               \/ OdometerUnit(newer) # OdometerUnit(older)
               \/ elapsed <= 0
               \/ delta <= 0
            THEN avg.isNone
            ELSE /\ ~avg.isNone
                 /\ SameRatio(avg.v, Ratio(delta * 1461, elapsed * 4))

\* The sensors were read on an entry that is an error marker.
ReadMarker ==
    /\ probe.pc = "done"
    /\ ~probe.entry.isNone
    /\ "_error" \in DOMAIN probe.entry.v

\* C27: read on an error marker, the attributes are exactly {error: marker}
\* and no sensor that derives its value from the payload (due date, days
\* remaining, status, last result, mileage) has a value.
C27_MarkerOnly ==
    ReadMarker =>
        /\ probe.out.attributes = Return(Some([error |-> probe.entry.v._error]))
        /\ \A key \in SensorKeys : probe.out.value[key] = Return(None)

\* C28: read on a vehicle payload, the since-registration average is none
\* exactly when the registration date does not parse, or there is no latest
\* test with a numeric odometer value, or no day has passed since the
\* registration; otherwise it is the odometer value of the latest test, the
\* head of the sorted tests, divided by the days since registration over
\* 365.25.
C28_SinceRegistration ==
    (ReadVehicle /\ probe.module = "component") =>
        LET reg == ParseDate("component", Get(probe.entry.v, "registrationDate"))
            st == probe.out.sorted
            odo == IF st.t = "return" /\ st.v # <<>>
                   THEN Float(Get(Head(st.v), "odometerValue")) ELSE None
            days == probe.today - reg.v
            avg == probe.out.average
        IN  /\ avg.t = "return"
            /\ avg.v.avg.isNone <=> (reg.isNone \/ odo.isNone \/ days <= 0)
            /\ ~avg.v.avg.isNone =>
                    SameRatio(avg.v.avg.v, Ratio(odo.v * 1461, days * 4))

\* C23: async_setup_entry never ends with the entry not loaded: when the
\* first refresh has failed, the coordinator is stored and the platforms are
\* set up all the same.
C23_SetupSurvivesFirstFailure ==
    probe.fn = "setup" => probe.pc # "not_loaded"

\* C25: once a cycle has been aborted by an authentication error, none of
\* its lookups that had not started is started: no task of the cycle goes from
\* waiting to running, neither among the tasks of the cycle nor among those
\* its gather() left behind.
C25_NoLookupAfterAuthError ==
    [][/\ (phase = "aborted" /\ phase' = "aborted") => Running(tasks') \subseteq Running(tasks)
       /\ \A g \in DOMAIN orphans :
            (orphans[g].ended = "aborted" /\ Len(orphans') = Len(orphans)) =>
                \A i \in DOMAIN orphans[g].st :
                    orphans[g].st[i] = "waiting" => orphans'[g].st[i] = "waiting"]_vars

\* What a lookup comes to when its token request fails for another reason
\* than a refusal.
TokenFailures ==
    {r \in TokenResults : r.t = "raise" /\ ~IsInstance(r, "MotAuthError")}

\* C26: a lookup whose token request failed for another reason than a refusal
\* (status >= 400 other than 401 and 403, transport failure) does not end the
\* cycle: unless some lookup of the cycle met an authentication error, the
\* cycle is fetching or settled, and once the lookup is done its vehicle has
\* an api_error marker in the results.
C26_TokenFailureNotFatal ==
    \A i \in DOMAIN tasks :
        (tasks[i].out \in TokenFailures /\ ~AuthErrorSeen) =>
            /\ phase \in {"fetching", "settled"}
            /\ tasks[i].reg \in DOMAIN results
            /\ IsApiErrorMarker(results[tasks[i].reg])

\* C29: the token lock is held only by a call that is waiting for the answer
\* to its POST, and every call that waits for the lock or for its answer
\* comes to its end.
C29_LockAlwaysReleased ==
    /\ [](lockHolder # 0 => caller[lockHolder].pc = "posting")
    /\ \A c \in Callers :
            (caller[c].pc \in {"waiting", "posting"}) ~> (caller[c].pc = "done")

\* A refresh that failed, and a later call that took the lock and refreshed.
C29_Witness ==
    /\ lockHolder = 0
    /\ \E c, d \in Callers :
        /\ c < d
        /\ caller[c].pc = "done" /\ caller[c].res.t = "raise"
        /\ caller[d].pc = "done" /\ caller[d].res.t = "return" /\ ~caller[d].hit

\* C30: a cycle that has ended is settled or aborted, never ended by another
\* exception, and in a settled cycle the lookup of each tracked registration
\* was started and finished exactly once, no lookup of the cycle holding a
\* permit any more.
C30_CycleTerminates ==
    /\ phase # "crashed"
    /\ phase = "settled" =>
        /\ AllDone(tasks)
        /\ Running(tasks) = {}
        /\ \A k \in 1..Len(registrations) :
                Cardinality({i \in 1..Len(tasks) : tasks[i].reg = registrations[k]}) = 1

\* The registrations an entity may have been created for.
EntityRegs ==
    UNION {Range(InitRegistrations(c)) \cup Range(GetRegistrations(c)) : c \in RawConfigs}

\* Every sensor of both modules and the binary sensor report no value.
NoValue(entry) ==
    /\ \A m \in SensorModules, key \in SensorKeys :
            NativeValue(m, key, entry, 0, 0) = Return(None)
    /\ IsOn(entry) = None

\* C31: the entities of a vehicle are available exactly when the Snapshot
\* exists, holds an entry for the vehicle and that entry is no api_error
\* marker; while no cycle has settled they are unavailable and without value,
\* on a not_found marker they are available and without value, and once a
\* cycle has aborted they are available exactly as the Snapshot from before
\* that cycle makes them.
C31_Availability ==
    \A reg \in EntityRegs :
        /\ Available(Entry(data, reg)) <=>
                (/\ ~data.isNone
                 /\ reg \in DOMAIN data.map
                 /\ ~IsApiErrorMarker(data.map[reg]))
        /\ data.isNone => (~Available(Entry(data, reg)) /\ NoValue(Entry(data, reg)))
        /\ (~data.isNone /\ reg \in DOMAIN data.map /\ IsNotFoundMarker(data.map[reg]))
                => (Available(Entry(data, reg)) /\ NoValue(Entry(data, reg)))
        /\ phase = "aborted" =>
                (Available(Entry(data, reg)) <=> Available(Entry(prevData, reg)))

\* A cycle has aborted over a Snapshot in which one vehicle is not found and
\* another one holds an api_error marker.
C31_Witness ==
    /\ phase = "aborted"
    /\ ~data.isNone
    /\ \E r1, r2 \in DOMAIN data.map :
        /\ IsNotFoundMarker(data.map[r1]) /\ Available(Entry(data, r1))
        /\ IsApiErrorMarker(data.map[r2]) /\ ~Available(Entry(data, r2))

====
